---- MODULE Spec2Model ----
(***************************************************************************)
(* paint_render: the depth-sort pipeline (simulation thread, sort thread,  *)
(* event/render thread), the orbit camera and the surface point sampler.   *)
(*                                                                         *)
(* Numbers.  Lengths are integers in units of half a zoom step (the zoom   *)
(* step is 0.01, so 1.0 is UnitLen = 200 units and a camera that starts an *)
(* odd number of units from the origin never lands on it).  Angles are     *)
(* whole degrees, multiples of 5, and sines are read from a table scaled   *)
(* by TrigScale.  A 4x4 matrix is a tuple of 4 rows of integers in         *)
(* homogeneous fixed point: the matrix stands for itself divided by its    *)
(* [4][4]-compatible scale, and z/w of a transformed point does not depend *)
(* on that scale.  A uniform random f32 in [0,1) is q/RandDen, q in        *)
(* 0..RandDen-1.                                                           *)
(***************************************************************************)
EXTENDS Integers, Sequences, FiniteSets, TLC

(* ------------------------------ bounds -------------------------------- *)
\* most messages the model lets wait in the points channel
MaxQueue == 2
\* most () messages the model lets wait in the point-update channel
MaxUpdates == 2
\* most zoom steps away from its starting distance the model follows the camera
MaxZoom == 1
\* the longest point buffer handed to a sort pass on its own
MaxBuf == 3
\* the number of outcomes after which a stream of random draws repeats
MaxDraws == 4

(* ------------------------- program constants -------------------------- *)
ZoomStep == 2
UnitLen == 200
Near == 20
Far == 2000
TrigScale == 1000
RandDen == 4
NumBrushes == 2
\* Deg(100.0), and TrigScale * cot(fov / 2)
FovDeg == 100
CotHalfFov == 839
\* aspect ratios are kept in tenths
AspectDen == 10
\* decimal digits kept of a depth key z / w
KeyDigits == 3

\* Option<T>: None, or Some(x)
None == <<>>
Some(x) == <<x>>
Unwrap(o) == o[1]

(* ------------------------------ vectors ------------------------------- *)
Abs(x) == IF x < 0 THEN -x ELSE x
Sgn(x) == IF x < 0 THEN -1 ELSE IF x > 0 THEN 1 ELSE 0

\* floor division, also for a negative numerator
FloorDiv(a, b) == a \div b

VAdd(a, b) == [i \in DOMAIN a |-> a[i] + b[i]]
VSub(a, b) == [i \in DOMAIN a |-> a[i] - b[i]]
VScale(a, k) == [i \in DOMAIN a |-> a[i] * k]
VDivK(a, k) == [i \in DOMAIN a |-> FloorDiv(a[i], k)]
Dot3(a, b) == a[1] * b[1] + a[2] * b[2] + a[3] * b[3]
Cross(a, b) ==
    << a[2] * b[3] - a[3] * b[2],
       a[3] * b[1] - a[1] * b[3],
       a[1] * b[2] - a[2] * b[1] >>

RECURSIVE ISqrtFrom(_, _)
ISqrtFrom(n, k) == IF (k + 1) * (k + 1) > n THEN k ELSE ISqrtFrom(n, k + 1)
\* the length of a vector; exact when the vector lies along an axis
Magnitude(v) ==
    LET nz == {i \in DOMAIN v : v[i] # 0}
    IN  IF nz = {} THEN 0
        ELSE IF Cardinality(nz) = 1 THEN Abs(v[CHOOSE i \in nz : TRUE])
        ELSE ISqrtFrom(Dot3(v, v), 0)

(* ------------------------------ matrices ------------------------------ *)
MatMul(a, b) ==
    [i \in 1..4 |-> [j \in 1..4 |->
        a[i][1] * b[1][j] + a[i][2] * b[2][j] + a[i][3] * b[3][j] + a[i][4] * b[4][j]]]
MatVec(a, v) ==
    [i \in 1..4 |-> a[i][1] * v[1] + a[i][2] * v[2] + a[i][3] * v[3] + a[i][4] * v[4]]
Identity4 ==
    << <<1, 0, 0, 0>>, <<0, 1, 0, 0>>, <<0, 0, 1, 0>>, <<0, 0, 0, 1>> >>

(* ---------------------------- trigonometry ---------------------------- *)
NormDeg(d) == d % 360
SinTable ==
    << 0, 87, 174, 259, 342, 423, 500, 574, 643, 707,
       766, 819, 866, 906, 940, 966, 985, 996, 1000 >>
\* TrigScale * sin(d degrees), d a multiple of 5
SinT(d) ==
    LET n == NormDeg(d)
    IN  IF n <= 90 THEN SinTable[(n \div 5) + 1]
        ELSE IF n <= 180 THEN SinTable[((180 - n) \div 5) + 1]
        ELSE IF n <= 270 THEN -SinTable[((n - 180) \div 5) + 1]
        ELSE -SinTable[((360 - n) \div 5) + 1]
CosT(d) == SinT(d + 90)

\* Matrix4::from_angle_y(Deg(d)), d a multiple of 90, scale 1
FromAngleY(d) ==
    LET c == CosT(d) \div TrigScale
        s == SinT(d) \div TrigScale
    IN  << <<c, 0, s, 0>>, <<0, 1, 0, 0>>, <<-s, 0, c, 0>>, <<0, 0, 0, 1>> >>

(* ------------------------------- camera ------------------------------- *)
\* A position is r units from the origin at angle ang in the vertical plane
\* through the y axis that holds the camera: (r sin ang, r cos ang, 0).  A
\* direction is len units long at angle ang of the same plane.
PosVec(p) == << p.r * SinT(p.ang), p.r * CosT(p.ang), 0 >>
UnitVec(ang) == << SinT(ang), CosT(ang), 0 >>

\* Camera::new
CameraNew(position, direction, aspect_ratio) ==
    [ position |-> position, direction |-> direction,
      fov |-> FovDeg, aspect_ratio |-> aspect_ratio, near |-> Near, far |-> Far,
      view |-> None, perspective |-> None ]

\* self.position.to_vec().angle(Vector3::unit_y()), in degrees
Theta(cam) ==
    IF cam.position.ang <= 180 THEN cam.position.ang ELSE 360 - cam.position.ang

\* Camera::right: direction x unit_y, normalized; (0, 0, RightZ)
RightZ(cam) == Sgn(SinT(cam.direction.ang))

\* variant: the mutators leave the cached matrices in place
KeepViewPerspective(cam) == cam
\* variant: only the cached view matrix is dropped
ResetViewOnly(cam) == [cam EXCEPT !.view = None]
\* Camera::reset_view_perspective
ResetViewPerspective(cam) == [cam EXCEPT !.view = None, !.perspective = None]

\* variant: the guard also rejects a rotation that lands on 5 or 175 degrees
RotateRejectedClosed(cam, angle) ==
    \/ (Theta(cam) + angle <= 5 /\ angle < 0)
    \/ (Theta(cam) + angle >= 175 /\ angle > 0)
\* the guard of Camera::rotate_up
RotateRejected(cam, angle) ==
    \/ (Theta(cam) + angle < 5 /\ angle < 0)
    \/ (Theta(cam) + angle > 175 /\ angle > 0)

\* Camera::rotate_up: a rotation by angle about (0, 0, RightZ) turns the plane
\* angle of the position by -RightZ * angle, at the same distance
RotateUp(cam, angle) ==
    IF RotateRejected(cam, angle) THEN cam
    ELSE LET ang == NormDeg(cam.position.ang - RightZ(cam) * angle)
         IN  ResetViewPerspective(
                 [cam EXCEPT !.position = [r |-> cam.position.r, ang |-> ang],
                             !.direction = [len |-> UnitLen, ang |-> NormDeg(ang + 180)]])

\* variant: a zoom that also turns the direction back towards the origin
ZoomAimed(cam, amount) ==
    LET along == IF cam.direction.ang = cam.position.ang
                 THEN cam.position.r ELSE -cam.position.r
        moved == along + amount
        pos   == IF moved >= 0
                 THEN [r |-> moved, ang |-> cam.direction.ang]
                 ELSE [r |-> -moved, ang |-> NormDeg(cam.direction.ang + 180)]
    IN  [cam EXCEPT !.position = pos,
                    !.direction = [len |-> UnitLen, ang |-> NormDeg(pos.ang + 180)],
                    !.view = None, !.perspective = None]
\* Camera::zoom: position += direction.normalize() * amount; the direction
\* is along the line through the origin and the position
Zoom(cam, amount) ==
    LET along == IF cam.direction.ang = cam.position.ang
                 THEN cam.position.r ELSE -cam.position.r
        moved == along + amount
        pos   == IF moved >= 0
                 THEN [r |-> moved, ang |-> cam.direction.ang]
                 ELSE [r |-> -moved, ang |-> NormDeg(cam.direction.ang + 180)]
    IN  ResetViewPerspective([cam EXCEPT !.position = pos])

\* Camera::set_aspect
SetAspect(cam, aspect_ratio) ==
    ResetViewPerspective([cam EXCEPT !.aspect_ratio = aspect_ratio])

\* Matrix4::look_at_rh(position, position + direction, unit_y), scale TrigScale
LookAtRh(position, direction) ==
    LET f   == UnitVec(direction.ang)
        sz  == Sgn(f[1])
        s   == << 0, 0, sz * TrigScale >>
        u   == << -sz * f[2], sz * f[1], 0 >>
        eye == PosVec(position)
    IN  << << s[1], s[2], s[3], -FloorDiv(Dot3(eye, s), TrigScale) >>,
           << u[1], u[2], u[3], -FloorDiv(Dot3(eye, u), TrigScale) >>,
           << -f[1], -f[2], -f[3], FloorDiv(Dot3(eye, f), TrigScale) >>,
           << 0, 0, 0, TrigScale >> >>

\* cgmath::perspective(fov, aspect_ratio, near, far), scale (far - near) / 20
Perspective(aspect_ratio) ==
    LET k == (Far - Near) \div 20
    IN  << << (k * CotHalfFov * AspectDen) \div (TrigScale * aspect_ratio), 0, 0, 0 >>,
           << 0, (k * CotHalfFov) \div TrigScale, 0, 0 >>,
           << 0, 0, -((Far + Near) \div 20), -((2 * Far * Near) \div 20) >>,
           << 0, 0, -k, 0 >> >>

\* Camera::view: the cached matrix, or a new one that is cached
ViewOf(cam) ==
    IF cam.view # None THEN Unwrap(cam.view)
    ELSE LookAtRh(cam.position, cam.direction)
AfterView(cam) == [cam EXCEPT !.view = Some(ViewOf(cam))]

\* Camera::perspective: the cached matrix, or a new one that is cached
PerspectiveOf(cam) ==
    IF cam.perspective # None THEN Unwrap(cam.perspective)
    ELSE Perspective(cam.aspect_ratio)
AfterPerspective(cam) == [cam EXCEPT !.perspective = Some(PerspectiveOf(cam))]
(* ----------------------------- depth sort ----------------------------- *)
\* a TransformSnapshot: Some((model, view, perspective, reverse_sort))
Snapshot(model, view, perspective, reverse_sort) ==
    [ model |-> model, view |-> view, perspective |-> perspective,
      reverse_sort |-> reverse_sort ]

InfKey == 1000000000
RECURSIVE Digits(_, _, _, _)
Digits(acc, rem, w, n) ==
    IF n = 0 THEN acc
    ELSE Digits(acc * 10 + ((rem * 10) \div w), (rem * 10) % w, w, n - 1)
\* the f32 quotient z / w, rounded down to KeyDigits decimals; a division by
\* zero gives an infinity of the sign of z
F32Div(z, w) ==
    IF w = 0 THEN Sgn(z) * InfKey
    ELSE LET zz == IF w < 0 THEN -z ELSE z
             ww == Abs(w)
         IN  Digits(zz \div ww, zz % ww, ww, KeyDigits)

\* perspective * view * model * vec4(position, 1.0), then p.z / p.w
DepthKey(snap, p) ==
    LET v == MatVec(MatMul(MatMul(snap.perspective, snap.view), snap.model),
                    << p.position[1], p.position[2], p.position[3], 1 >>)
    IN  F32Div(v[3], v[4])

\* f32::partial_cmp
PartialCmp(a, b) == IF a < b THEN "Less" ELSE IF a > b THEN "Greater" ELSE "Equal"
\* Ordering::reverse
OrderingReverse(o) ==
    IF o = "Less" THEN "Greater" ELSE IF o = "Greater" THEN "Less" ELSE "Equal"
\* variant: the wrapper compares as f32 does, without the reverse()
OrdCmpForward(a, b) == PartialCmp(a, b)
\* impl Ord for Ord<f32>: self.partial_cmp(other).unwrap().reverse()
OrdCmp(a, b) == OrderingReverse(PartialCmp(a, b))
\* impl Ord for std::cmp::Reverse<T>: other.0.cmp(&self.0)
ReverseCmp(a, b) == OrdCmp(b, a)
\* the comparison of two keys of one sort pass: Reverse(Ord(k)) when
\* reverse_sort is set, Ord(k) when it is clear
KeyCmp(reverse_sort, a, b) == IF reverse_sort THEN ReverseCmp(a, b) ELSE OrdCmp(a, b)

\* variant: a point whose key equals that of a point already placed is
\* dropped, as by a dedup_by_key after the sort
RECURSIVE InsertByKeyDedup(_, _, _, _)
InsertByKeyDedup(s, x, snap, i) ==
    IF i > Len(s) THEN Append(s, x)
    ELSE LET o == KeyCmp(snap.reverse_sort, DepthKey(snap, s[i]), DepthKey(snap, x))
         IN  IF o = "Equal" THEN s
             ELSE IF o = "Greater"
             THEN SubSeq(s, 1, i - 1) \o <<x>> \o SubSeq(s, i, Len(s))
             ELSE InsertByKeyDedup(s, x, snap, i + 1)
\* x put into the sorted sequence s, after every element that is not greater
RECURSIVE InsertByKey(_, _, _, _)
InsertByKey(s, x, snap, i) ==
    IF i > Len(s) \/ KeyCmp(snap.reverse_sort, DepthKey(snap, s[i]), DepthKey(snap, x)) = "Greater"
    THEN SubSeq(s, 1, i - 1) \o <<x>> \o SubSeq(s, i, Len(s))
    ELSE InsertByKey(s, x, snap, i + 1)
RECURSIVE SortFrom(_, _, _, _)
SortFrom(done, points, snap, i) ==
    IF i > Len(points) THEN done
    ELSE SortFrom(InsertByKey(done, points[i], snap, 1), points, snap, i + 1)
\* points.par_sort_by_cached_key(..): a stable sort by the keys
SortByCachedKey(points, snap) == SortFrom(<<>>, points, snap, 1)
(* --------------------------- surface sampler -------------------------- *)
\* the i-th value drawn from a stream of random draws (each in 0..RandDen-1)
Draw(draws, i) == draws[((i - 1) % Len(draws)) + 1]

\* mesh.indices.chunks(3)
RECURSIVE Chunks3(_)
Chunks3(indices) ==
    IF Len(indices) = 0 THEN <<>>
    ELSE IF Len(indices) <= 3 THEN <<indices>>
    ELSE <<SubSeq(indices, 1, 3)>> \o Chunks3(SubSeq(indices, 4, Len(indices)))

\* variant: the remainder test is <=, so a draw of 0 always adds a point
NumPointsClosed(area2, density, q) ==
    LET d == 2 * UnitLen * UnitLen
        n == (area2 * density) \div d
        m == (area2 * density) % d
    IN  IF q * d <= m * RandDen THEN n + 1 ELSE n
\* variant: the expected count is rounded up without any draw
NumPointsCeil(area2, density, q) ==
    LET d == 2 * UnitLen * UnitLen
        n == (area2 * density) \div d
        m == (area2 * density) % d
    IN  IF m > 0 THEN n + 1 ELSE n
\* floor(area * density) and whether one draw q / RandDen is below the remainder;
\* area2 is twice the area in square units, density is per UnitLen * UnitLen
NumPoints(area2, density, q) ==
    LET d == 2 * UnitLen * UnitLen
        n == (area2 * density) \div d
        m == (area2 * density) % d
    IN  IF q * d < m * RandDen THEN n + 1 ELSE n

\* variant: the draws are used as they come
FoldNever(q1, q2) == << q1, q2 >>
\* if r1 + r2 >= 1.0 { r1 = 1.0 - r1; r2 = 1.0 - r2; }, in units of 1 / RandDen
Fold(q1, q2) ==
    IF q1 + q2 >= RandDen THEN << RandDen - q1, RandDen - q2 >> ELSE << q1, q2 >>

\* one point of triangle tri of the mesh from the draws q1, q2 and qb
SamplePoint(mesh, tri, q1, q2, qb) ==
    LET a == mesh.positions[tri[1] + 1]
        b == mesh.positions[tri[2] + 1]
        c == mesh.positions[tri[3] + 1]
        an == mesh.normals[tri[1] + 1]
        bn == mesh.normals[tri[2] + 1]
        cn == mesh.normals[tri[3] + 1]
        auv == mesh.texcoords[tri[1] + 1]
        buv == mesh.texcoords[tri[2] + 1]
        cuv == mesh.texcoords[tri[3] + 1]
        ab == VSub(b, a)
        ac == VSub(c, a)
        duv_ab == VSub(buv, auv)
        duv_ac == VSub(cuv, auv)
        det == duv_ab[1] * duv_ac[2] - duv_ab[2] * duv_ac[1]
        tangent == IF det = 0 THEN <<>>
                   ELSE VDivK(VSub(VScale(ab, duv_ac[2]), VScale(ac, duv_ab[2])), det)
        bitangent == IF det = 0 THEN <<>>
                     ELSE VDivK(VSub(VScale(ac, duv_ab[1]), VScale(ab, duv_ac[1])), det)
        area2 == Magnitude(Cross(ab, ac))
        r1 == Fold(q1, q2)[1]
        r2 == Fold(q1, q2)[2]
        p == VAdd(a, VDivK(VAdd(VScale(ab, r1), VScale(ac, r2)), RandDen))
        ap == VSub(p, a)
        bp == VSub(p, b)
        u == (Magnitude(Cross(ac, ap)) * RandDen) \div area2
        v == (Magnitude(Cross(ab, bp)) * RandDen) \div area2
        w == RandDen - u - v
    IN  [ position |-> p,
          normal |-> VAdd(VAdd(VScale(an, u), VScale(bn, v)), VScale(cn, w)),
          tangent |-> tangent,
          bitangent |-> bitangent,
          uv |-> VAdd(VAdd(VScale(auv, u), VScale(buv, v)), VScale(cuv, w)),
          brush_index |-> qb % NumBrushes ]

\* the points of one triangle, drawing from position i of the stream
RECURSIVE SamplePoints(_, _, _, _, _)
SamplePoints(mesh, tri, draws, i, n) ==
    IF n = 0 THEN <<>>
    ELSE <<SamplePoint(mesh, tri, Draw(draws, i), Draw(draws, i + 1), Draw(draws, i + 2))>>
         \o SamplePoints(mesh, tri, draws, i + 3, n - 1)

RECURSIVE SampleTriangles(_, _, _, _, _)
SampleTriangles(mesh, tris, density, draws, i) ==
    IF Len(tris) = 0 THEN <<>>
    ELSE LET tri == Head(tris)
         IN  IF Len(tri) # 3
             THEN SampleTriangles(mesh, Tail(tris), density, draws, i)
             ELSE LET ab == VSub(mesh.positions[tri[2] + 1], mesh.positions[tri[1] + 1])
                      ac == VSub(mesh.positions[tri[3] + 1], mesh.positions[tri[1] + 1])
                      n  == NumPoints(Magnitude(Cross(ab, ac)), density, Draw(draws, i))
                  IN  SamplePoints(mesh, tri, draws, i + 1, n)
                      \o SampleTriangles(mesh, Tail(tris), density, draws, i + 1 + 3 * n)

\* variant: a mesh whose index stream is not made of whole triangles is given
\* up as a whole and yields no points
GenPointListStrict(mesh, density, draws) ==
    IF Len(mesh.indices) % 3 # 0 THEN <<>>
    ELSE SampleTriangles(mesh, Chunks3(mesh.indices), density, draws, 1)
\* gen_point_list(model, density): the points sampled with the given draws;
\* normals and uvs are kept in units of 1 / RandDen
GenPointList(mesh, density, draws) ==
    SampleTriangles(mesh, Chunks3(mesh.indices), density, draws, 1)
(* ------------------------------- inputs ------------------------------- *)
\* data.models[i].model: the meshes of the scene, one triangle each
Models ==
    << [ indices   |-> <<0, 1, 2>>,
         positions |-> << <<40, 0, 0>>, <<80, 0, 0>>, <<40, 0, 20>> >>,
         normals   |-> << <<1, 0, 0>>, <<0, 1, 0>>, <<0, 0, 1>> >>,
         texcoords |-> << <<0, 0>>, <<4, 0>>, <<0, 4>> >> ],
       [ indices   |-> <<0, 1, 2>>,
         positions |-> << <<-80, 0, -20>>, <<-40, 0, -20>>, <<-80, 0, 0>> >>,
         normals   |-> << <<1, 0, 0>>, <<0, 1, 0>>, <<0, 0, 1>> >>,
         texcoords |-> << <<0, 0>>, <<4, 0>>, <<0, 4>> >> ] >>
NumModels == Len(Models)

\* scene.stroke_density and the values the density slider is moved to
SceneDensity == 100
SliderDensities == {100, 200}
\* the outcomes of the random draws of one gen_point_list call
DrawStreams == { <<0, 1, 1, 0, 2, 1, 1>>, <<0, 1, 1, 0, 3, 2, 0>> }
\* scene.camera_position: 201 units out on the x axis, looking at the origin
CameraStart == [r |-> 201, ang |-> 90]
\* the aspect ratio of the 2880 x 1800 window, and of the size it is resized
\* to, in tenths
WindowAspect == (2880 * AspectDen) \div 1800
Aspects == {20}
\* the wheel deltas the mouse sends, and the keys the simulation reads
WheelDeltas == { <<300, 250>> }
Keys == {"Up", "Down", "R"}
Threads == {"sim", "sort", "main"}
Free == "free"

(* ------------------------------- state -------------------------------- *)
VARIABLES
    \* State
    wheel_delta, keys, model, camera, stroke_density,
    \* which thread holds each Mutex
    lock,
    \* fixed_update: the cell, and the two channels of main
    latest, points_chan, update_chan,
    \* simulation thread
    sim_pc, reverse_sort, changed, sim_snap,
    \* sort thread
    sort_pc, points_m, regen_points, sort_latest, sort_i,
    \* event loop
    ev_pc, point_density, data_points,
    \* history: what the claims speak of and the program does not store
    hist

vars == << wheel_delta, keys, model, camera, stroke_density, lock,
           latest, points_chan, update_chan,
           sim_pc, reverse_sort, changed, sim_snap,
           sort_pc, points_m, regen_points, sort_latest, sort_i,
           ev_pc, point_density, data_points, hist >>

shared_vars == << wheel_delta, keys, model, camera, stroke_density >>
sim_vars == << sim_pc, reverse_sort, changed, sim_snap >>
sort_vars == << sort_pc, points_m, regen_points, sort_latest, sort_i >>
ev_vars == << ev_pc, point_density, data_points >>

\* Mutex::lock returns once the mutex is free; Mutex::try_lock succeeds when it is
LockFree(name) == lock[name] = Free
TryLock(name) == lock[name] = Free
Acquire(name, t) == [lock EXCEPT ![name] = t]
Release(name) == [lock EXCEPT ![name] = Free]

\* every model's points of one density, sampled with one stream of draws
RECURSIVE AllPoints(_, _, _)
AllPoints(i, density, draws) ==
    IF i > NumModels THEN <<>>
    ELSE GenPointList(Models[i], density, draws) \o AllPoints(i + 1, density, draws)

\* variant: the cell starts out holding a snapshot of identity matrices
LatestInitIdentity == Some(Snapshot(Identity4, Identity4, Identity4, TRUE))
\* what the cell holds when fixed_update creates it
LatestInit == None

\* the locals model, view and perspective of one tick of the simulation thread
NoSnap == [model |-> None, view |-> None, perspective |-> None]

Init ==
    /\ wheel_delta = None
    /\ keys = {}
    /\ model = Identity4
    /\ camera = CameraNew(CameraStart,
                          [len |-> CameraStart.r, ang |-> NormDeg(CameraStart.ang + 180)],
                          WindowAspect)
    /\ stroke_density = SceneDensity
    /\ lock = [n \in {"wheel_delta", "keys", "model", "camera", "latest"} |-> Free]
    /\ latest = LatestInit
    /\ points_chan = <<>>
    /\ update_chan = 0
    /\ sim_pc = "lock_wheel"
    /\ reverse_sort = TRUE
    /\ changed = TRUE
    /\ sim_snap = NoSnap
    /\ sort_pc = "recv"
    /\ \E draws \in DrawStreams :
          /\ points_m = [i \in 1..NumModels |-> GenPointList(Models[i], SceneDensity, draws)]
          /\ data_points = points_m
    /\ regen_points = FALSE
    /\ sort_latest = None
    /\ sort_i = 0
    /\ ev_pc = "idle"
    /\ point_density = SceneDensity
    /\ hist = [ dirty |-> TRUE, written |-> None, pubs |-> 0, used |-> <<>>,
                sent |-> None, taken |-> None ]
(* -------------------------- simulation thread ------------------------- *)
\* Deg(0.3 * d) for a wheel delta d, in whole degrees
WheelDeg(d) == (3 * d) \div 10

\* the four lock() calls that open a tick, in the order of the code
SimLock(name, next) ==
    /\ LockFree(name)
    /\ lock' = Acquire(name, "sim")
    /\ sim_pc' = next
    /\ UNCHANGED << wheel_delta, keys, model, camera, stroke_density, latest,
                    points_chan, update_chan, reverse_sort, changed, sim_snap,
                    sort_vars, ev_vars, hist >>
SimLockWheel == sim_pc = "lock_wheel" /\ SimLock("wheel_delta", "lock_keys")
SimLockKeys == sim_pc = "lock_keys" /\ SimLock("keys", "lock_model")
SimLockModel == sim_pc = "lock_model" /\ SimLock("model", "lock_camera")
SimLockCamera == sim_pc = "lock_camera" /\ SimLock("camera", "input")

\* whether a tick's input handling sets `changed`
InputSetsChanged(wd, ks) == wd # None \/ "R" \in ks
\* whether a tick's input handling mutates the camera, the model or the flag
InputMutates(wd, ks) == wd # None \/ "Up" \in ks \/ "Down" \in ks \/ "R" \in ks

\* if keys.contains(&VirtualKeyCode::R) { reverse_sort = !reverse_sort; .. }
\* variant: the flag follows the key, clear while R is held and set otherwise
ReverseSortWhileReleased(flag, ks) == "R" \notin ks
ReverseSortToggled(flag, ks) == IF "R" \in ks THEN ~flag ELSE flag

\* the wheel, the zoom keys and the R key of one tick
SimInput ==
    /\ sim_pc = "input"
    /\ LET wd == wheel_delta
           c1 == IF wd # None THEN RotateUp(camera, -WheelDeg(Unwrap(wd)[2])) ELSE camera
           c2 == IF "Up" \in keys THEN Zoom(c1, ZoomStep) ELSE c1
           c3 == IF "Down" \in keys THEN Zoom(c2, -ZoomStep) ELSE c2
       IN  /\ Abs(c3.position.r - CameraStart.r) <= MaxZoom * ZoomStep
           /\ model' = IF wd # None
                       THEN MatMul(FromAngleY(WheelDeg(Unwrap(wd)[1])), model)
                       ELSE model
           /\ camera' = c3
           /\ reverse_sort' = ReverseSortToggled(reverse_sort, keys)
           /\ changed' = (changed \/ InputSetsChanged(wd, keys))
           /\ hist' = [hist EXCEPT !.dirty = hist.dirty \/ InputMutates(wd, keys)]
    /\ sim_pc' = "test"
    /\ UNCHANGED << wheel_delta, keys, stroke_density, lock, latest, points_chan,
                    update_chan, sim_snap, sort_vars, ev_vars >>

\* if changed { changed = false; let model = *model; .. }
SimTest ==
    /\ sim_pc = "test"
    /\ IF changed
       THEN /\ changed' = FALSE
            /\ sim_snap' = [sim_snap EXCEPT !.model = Some(model)]
            /\ sim_pc' = "view"
       ELSE /\ sim_pc' = "unlock"
            /\ UNCHANGED << changed, sim_snap >>
    /\ UNCHANGED << shared_vars, lock, latest, points_chan, update_chan,
                    reverse_sort, sort_vars, ev_vars, hist >>

\* let view = Matrix4::from(camera.view());
SimView ==
    /\ sim_pc = "view"
    /\ sim_snap' = [sim_snap EXCEPT !.view = Some(ViewOf(camera))]
    /\ camera' = AfterView(camera)
    /\ sim_pc' = "persp"
    /\ UNCHANGED << wheel_delta, keys, model, stroke_density, lock, latest,
                    points_chan, update_chan, reverse_sort, changed, sort_vars,
                    ev_vars, hist >>

\* let perspective = Matrix4::from(camera.perspective());
SimPerspective ==
    /\ sim_pc = "persp"
    /\ sim_snap' = [sim_snap EXCEPT !.perspective = Some(PerspectiveOf(camera))]
    /\ camera' = AfterPerspective(camera)
    /\ sim_pc' = "publish"
    /\ UNCHANGED << wheel_delta, keys, model, stroke_density, lock, latest,
                    points_chan, update_chan, reverse_sort, changed, sort_vars,
                    ev_vars, hist >>

\* if let Ok(mut lock) = latest.try_lock() { *lock = Some(..) }: the cell after
\* the attempt, `got` telling whether try_lock returned the guard
\* variant: the write goes through whether or not try_lock returned the guard
PublishCellAlways(cell, snap, got) == Some(snap)
\* variant: a snapshot already in the cell is kept and the new one dropped
PublishCellOnce(cell, snap, got) == IF got /\ cell = None THEN Some(snap) ELSE cell
PublishCell(cell, snap, got) == IF got THEN Some(snap) ELSE cell

\* Some((model, view, perspective, reverse_sort)) of this tick
SimSnapshot == Snapshot(Unwrap(sim_snap.model), Unwrap(sim_snap.view),
                        Unwrap(sim_snap.perspective), reverse_sort)

SimPublish ==
    /\ sim_pc = "publish"
    /\ LET snap == SimSnapshot
           got  == TryLock("latest")
       IN  /\ latest' = PublishCell(latest, snap, got)
           /\ hist' = IF got
                      THEN [hist EXCEPT !.dirty = FALSE,
                                        !.written = Some(snap),
                                        !.pubs = IF hist.pubs < 2 THEN hist.pubs + 1 ELSE 2]
                      ELSE hist
    /\ sim_pc' = "unlock"
    /\ UNCHANGED << shared_vars, lock, points_chan, update_chan, reverse_sort,
                    changed, sim_snap, sort_vars, ev_vars >>

\* the end of the block drops the four guards; the thread sleeps to the next tick
SimUnlock ==
    /\ sim_pc = "unlock"
    /\ lock' = [n \in DOMAIN lock |-> IF lock[n] = "sim" THEN Free ELSE lock[n]]
    /\ sim_snap' = NoSnap
    /\ sim_pc' = "lock_wheel"
    /\ UNCHANGED << shared_vars, latest, points_chan, update_chan, reverse_sort,
                    changed, sort_vars, ev_vars, hist >>

SimStep ==
    \/ SimLockWheel \/ SimLockKeys \/ SimLockModel \/ SimLockCamera
    \/ SimInput \/ SimTest \/ SimView \/ SimPerspective \/ SimPublish \/ SimUnlock
(* ----------------------------- sort thread ---------------------------- *)
\* while let Ok(()) = point_update_rx.try_recv() { regen_points = true; }:
\* the flag, and the number of requests left pending
\* variant: `if let` in place of `while let`, one request taken per tick
TryRecvOneUpdate(pending) ==
    [ regen |-> pending > 0, rest |-> IF pending > 0 THEN pending - 1 ELSE 0 ]
TryRecvUpdates(pending) == [ regen |-> pending > 0, rest |-> 0 ]

SortRecv ==
    /\ sort_pc = "recv"
    /\ regen_points' = TryRecvUpdates(update_chan).regen
    /\ update_chan' = TryRecvUpdates(update_chan).rest
    /\ sort_pc' = IF regen_points' THEN "regen" ELSE "lock"
    /\ UNCHANGED << shared_vars, lock, latest, points_chan, sim_vars,
                    points_m, sort_latest, sort_i, ev_vars, hist >>

\* if regen_points { .. points_m = vec![points]; }
SortRegen ==
    /\ sort_pc = "regen"
    /\ \E draws \in DrawStreams :
          points_m' = << AllPoints(1, stroke_density, draws) >>
    /\ sort_pc' = "lock"
    /\ UNCHANGED << shared_vars, lock, latest, points_chan, update_chan, sim_vars,
                    regen_points, sort_latest, sort_i, ev_vars, hist >>

\* latest.lock(): the sort thread waits for the cell
SortLock ==
    /\ sort_pc = "lock"
    /\ LockFree("latest")
    /\ lock' = Acquire("latest", "sort")
    /\ sort_pc' = "copy"
    /\ UNCHANGED << shared_vars, latest, points_chan, update_chan, sim_vars,
                    points_m, regen_points, sort_latest, sort_i, ev_vars, hist >>

\* what the read leaves in the cell: `*guard` copies the Option out of it
\* variant: `guard.take()`, which moves the snapshot out and leaves None
CellTaken(cell) == None
CellAfterRead(cell) == cell

\* let latest = { *latest.lock().unwrap() }: copy the cell, drop the guard
SortCopy ==
    /\ sort_pc = "copy"
    /\ sort_latest' = latest
    /\ latest' = CellAfterRead(latest)
    /\ lock' = Release("latest")
    /\ sort_i' = 1
    /\ sort_pc' = IF latest # None THEN "sort" ELSE "recv"
    /\ hist' = [hist EXCEPT !.pubs = 0, !.used = <<>>]
    /\ UNCHANGED << shared_vars, points_chan, update_chan, sim_vars,
                    points_m, regen_points, ev_vars >>

\* the snapshot one buffer of a pass is sorted against: the tuple bound by
\* `if let Some((model, view, perspective, reverse_sort)) = latest`
\* variant: each buffer reads the shared cell again
PassSnapshotFromCell(local, cell) == Unwrap(cell)
PassSnapshot(local, cell) == Unwrap(local)

\* for points in &mut points_m { points.par_sort_by_cached_key(..) }: one buffer
SortBuffer ==
    /\ sort_pc = "sort"
    /\ sort_i <= Len(points_m)
    /\ LET snap == PassSnapshot(sort_latest, latest)
       IN  /\ points_m' = [points_m EXCEPT ![sort_i] = SortByCachedKey(points_m[sort_i], snap)]
           /\ hist' = [hist EXCEPT !.used = Append(hist.used, snap)]
    /\ sort_i' = sort_i + 1
    /\ UNCHANGED << shared_vars, lock, latest, points_chan, update_chan, sim_vars,
                    sort_pc, regen_points, sort_latest, ev_vars >>

\* where the sort thread goes after points_sender.send(..).unwrap(): on to the
\* sleep and the next tick, or, when the receiver has been dropped and send
\* returns Err, into the panic that ends the thread
\* variant: the result of send is ignored (`let _ = points_sender.send(..)`)
SendIgnoreErr(connected) == "recv"
SendUnwrap(connected) == IF connected THEN "recv" ELSE "panicked"

\* points_sender.send(points_m.clone()).unwrap(); then the sleep to the next tick
SortSend ==
    /\ sort_pc = "sort"
    /\ sort_i > Len(points_m)
    /\ LET connected == ev_pc # "gone"
       IN  /\ connected => Len(points_chan) < MaxQueue
           /\ points_chan' = IF connected THEN Append(points_chan, points_m) ELSE points_chan
           /\ sort_pc' = SendUnwrap(connected)
           /\ hist' = IF connected THEN [hist EXCEPT !.sent = Some(points_m)] ELSE hist
    /\ UNCHANGED << shared_vars, lock, latest, update_chan, sim_vars,
                    points_m, regen_points, sort_latest, sort_i, ev_vars >>

SortStep == SortRecv \/ SortRegen \/ SortLock \/ SortCopy \/ SortBuffer \/ SortSend

(* ----------------------------- event loop ----------------------------- *)
\* state.camera.lock() of the Resized handler returns once the camera is free
\* variant: the handler writes the camera without taking its lock
ResizeWithoutLock == TRUE
ResizeMayLock == LockFree("camera")

\* WindowEvent::Resized: camera.lock(), set_aspect
Resized(aspect) ==
    /\ ev_pc = "idle"
    /\ ResizeMayLock
    /\ camera' = SetAspect(camera, aspect)
    /\ UNCHANGED << wheel_delta, keys, model, stroke_density, lock, latest,
                    points_chan, update_chan, sim_vars, sort_vars, ev_vars, hist >>

\* WindowEvent::KeyboardInput: keys.lock(), insert or remove
KeyboardInput(key, pressed) ==
    /\ ev_pc = "idle"
    /\ LockFree("keys")
    /\ keys' = IF pressed THEN keys \cup {key} ELSE keys \ {key}
    /\ UNCHANGED << wheel_delta, model, camera, stroke_density, lock, latest,
                    points_chan, update_chan, sim_vars, sort_vars, ev_vars, hist >>

\* WindowEvent::MouseWheel: wheel_delta.lock(), Some(delta) or None when it ends
MouseWheel(delta) ==
    /\ ev_pc = "idle"
    /\ LockFree("wheel_delta")
    /\ wheel_delta' = delta
    /\ UNCHANGED << keys, model, camera, stroke_density, lock, latest,
                    points_chan, update_chan, sim_vars, sort_vars, ev_vars, hist >>

\* while let Ok(points) = rx.try_recv() { last_points = Some(points); }
\* variant: `if let` in place of `while let`, one message taken per frame
TryRecvOne(chan) ==
    [ last |-> IF Len(chan) = 0 THEN None ELSE Some(Head(chan)),
      rest |-> IF Len(chan) = 0 THEN <<>> ELSE Tail(chan) ]
TryRecvAll(chan) ==
    [ last |-> IF Len(chan) = 0 THEN None ELSE Some(chan[Len(chan)]),
      rest |-> <<>> ]

\* for (i, points) in points.into_iter().enumerate() { data.models[i].points = points; }
ApplyPoints(data, msg) ==
    [i \in 1..Len(data) |-> IF i <= Len(msg) THEN msg[i] ELSE data[i]]

\* one render frame up to draw(): the density slider (moved to `slider`, or
\* left alone), then the drain of the points channel
Frame(slider) ==
    /\ ev_pc = "idle"
    /\ IF slider # point_density
       THEN /\ update_chan < MaxUpdates
            /\ point_density' = slider
            /\ stroke_density' = slider
            /\ update_chan' = update_chan + 1
       ELSE UNCHANGED << point_density, stroke_density, update_chan >>
    /\ LET got == TryRecvAll(points_chan)
       IN  /\ points_chan' = got.rest
           /\ data_points' = IF got.last # None
                             THEN ApplyPoints(data_points, Unwrap(got.last))
                             ELSE data_points
           /\ hist' = IF got.last # None THEN [hist EXCEPT !.taken = got.last] ELSE hist
    /\ ev_pc' = "draw_model"
    /\ UNCHANGED << wheel_delta, keys, model, camera, lock, latest,
                    sim_vars, sort_vars >>

\* draw: state.model.lock(), copy the matrix out
DrawModel ==
    /\ ev_pc = "draw_model"
    /\ LockFree("model")
    /\ ev_pc' = "draw_camera"
    /\ UNCHANGED << shared_vars, lock, latest, points_chan, update_chan,
                    sim_vars, sort_vars, point_density, data_points, hist >>

\* draw_points / draw_model: camera.lock(), camera.view(), camera.perspective()
DrawCamera ==
    /\ ev_pc = "draw_camera"
    /\ LockFree("camera")
    /\ camera' = AfterPerspective(AfterView(camera))
    /\ ev_pc' = "idle"
    /\ UNCHANGED << wheel_delta, keys, model, stroke_density, lock, latest,
                    points_chan, update_chan, sim_vars, sort_vars,
                    point_density, data_points, hist >>

\* the closure passed to event_loop.run owns rx and point_update_tx: when the
\* main thread panics in a handler (input.virtual_keycode.unwrap() on a key
\* without a code) its unwinding drops both, and the messages pending in the
\* channel with them, while the two spawned threads are still running
ReceiverDropped ==
    /\ ev_pc = "idle"
    /\ ev_pc' = "gone"
    /\ points_chan' = <<>>
    /\ UNCHANGED << shared_vars, lock, latest, update_chan, sim_vars, sort_vars,
                    point_density, data_points, hist >>

EventStep ==
    \/ \E a \in Aspects : Resized(a)
    \/ \E k \in Keys, pressed \in BOOLEAN : KeyboardInput(k, pressed)
    \/ \E d \in {None} \cup {Some(w) : w \in WheelDeltas} : MouseWheel(d)
    \/ \E d \in SliderDensities : Frame(d)
    \/ DrawModel
    \/ DrawCamera
    \/ ReceiverDropped

\* the whole program with every input
Next == SimStep \/ SortStep \/ EventStep
Spec == Init /\ [][Next]_vars

(* --------------------------- environments ----------------------------- *)
\* The hand-off cell: the keys Up and R, window resizes, render frames; the
\* density slider is left alone, so the sort thread never re-samples.
SortCell == SortRecv \/ SortLock \/ SortCopy \/ SortBuffer \/ SortSend
EventCell ==
    \/ \E a \in Aspects : Resized(a)
    \/ \E k \in {"Up", "R"}, pressed \in BOOLEAN : KeyboardInput(k, pressed)
    \/ Frame(point_density)
    \/ DrawModel
    \/ DrawCamera
NextCell == SimStep \/ SortCell \/ EventCell
SpecCell == Init /\ [][NextCell]_vars

\* The points channel: render frames that may move the density slider, and no
\* keyboard, wheel or resize events.
EventQueue ==
    \/ \E d \in SliderDensities : Frame(d)
    \/ DrawModel
    \/ DrawCamera
NextQueue == SimStep \/ SortStep \/ EventQueue
SpecQueue == Init /\ [][NextQueue]_vars

\* The consumer going away: the R key, render frames, and the main thread
\* dropping the receiver at any point between two frames.
EventGone ==
    \/ \E pressed \in BOOLEAN : KeyboardInput("R", pressed)
    \/ Frame(point_density)
    \/ DrawModel
    \/ DrawCamera
    \/ ReceiverDropped
NextGone == SimStep \/ SortCell \/ EventGone
SpecGone == Init /\ [][NextGone]_vars

\* One sort pass on its own: the sort thread has just copied a snapshot out of
\* the cell and sorts its buffers against it. The snapshot is that of a camera
\* and model the simulation thread can produce, the buffers are sequences of
\* sampled points in any order.
SortCameras ==
    LET c == CameraNew(CameraStart,
                       [len |-> CameraStart.r, ang |-> NormDeg(CameraStart.ang + 180)],
                       WindowAspect)
    IN  { c, Zoom(c, ZoomStep) }
        \cup { RotateUp(c, -WheelDeg(d[2])) : d \in WheelDeltas }
        \cup { SetAspect(c, a) : a \in Aspects }
SortModels == { Identity4 } \cup { FromAngleY(WheelDeg(d[1])) : d \in WheelDeltas }
SortSnapshots ==
    { Snapshot(m, ViewOf(c), PerspectiveOf(c), r) :
        m \in SortModels, c \in SortCameras, r \in BOOLEAN }
SortPool == { AllPoints(1, d, draws) : d \in SliderDensities, draws \in DrawStreams }
Reversed(s) == [i \in 1..Len(s) |-> s[Len(s) + 1 - i]]
InitSort ==
    /\ wheel_delta = None
    /\ keys = {}
    /\ model = Identity4
    /\ camera = CameraNew(CameraStart,
                          [len |-> CameraStart.r, ang |-> NormDeg(CameraStart.ang + 180)],
                          WindowAspect)
    /\ stroke_density = SceneDensity
    /\ lock = [n \in {"wheel_delta", "keys", "model", "camera", "latest"} |-> Free]
    /\ points_chan = <<>>
    /\ update_chan = 0
    /\ sim_pc = "lock_wheel"
    /\ changed = FALSE
    /\ sim_snap = NoSnap
    /\ regen_points = FALSE
    /\ ev_pc = "idle"
    /\ point_density = SceneDensity
    /\ \E snap \in SortSnapshots :
          /\ latest = Some(snap)
          /\ sort_latest = latest
          /\ reverse_sort = snap.reverse_sort
          /\ hist = [ dirty |-> FALSE, written |-> latest, pubs |-> 0, used |-> <<>>,
                      sent |-> None, taken |-> None ]
    /\ \E pool \in SortPool, n \in 0..MaxBuf :
          \E pick \in [1..n -> 1..Len(pool)] :
             /\ points_m = << [i \in 1..n |-> pool[pick[i]]],
                              Reversed([i \in 1..n |-> pool[pick[i]]]) >>
             /\ data_points = points_m
    /\ sort_pc = "sort"
    /\ sort_i = 1
NextSort == SortBuffer \/ SortSend
SpecSort == InitSort /\ [][NextSort]_vars

\* A Camera on its own: built by Camera::new looking at the origin, then any
\* sequence of zoom, rotate_up, set_aspect, view and perspective calls.  The
\* history records the last call, its argument, the camera before it, what it
\* returned, and whether a mutator has ever dropped a cached matrix.  A
\* rotation may put the position exactly on the y axis; there right() and
\* look_at_rh normalize a zero vector, so no call is followed from such a
\* camera.  A position exactly on the origin is left out.
OffAxis(cam) == cam.position.ang \notin {0, 180}
CameraStarts == { [r |-> r, ang |-> a] : r \in {1, CameraStart.r}, a \in {10, 90, 170} }
RotateAngles == { -10, -5, 5, 10 } \cup { -WheelDeg(d[2]) : d \in WheelDeltas }
ZoomAmounts == { ZoomStep, -ZoomStep }
CameraAspects == Aspects \cup { WindowAspect }
pipeline_vars == << wheel_delta, keys, model, stroke_density, lock, latest,
                    points_chan, update_chan, sim_vars, sort_vars, ev_vars >>
Cached(cam) == cam.view # None \/ cam.perspective # None
Called(op, arg, ret, dropped) ==
    [ op |-> op, arg |-> arg, before |-> camera, ret |-> ret, dropped |-> dropped ]
InitCamera ==
    /\ wheel_delta = None
    /\ keys = {}
    /\ model = Identity4
    /\ \E p \in CameraStarts :
          camera = CameraNew(p, [len |-> p.r, ang |-> NormDeg(p.ang + 180)], WindowAspect)
    /\ stroke_density = SceneDensity
    /\ lock = [n \in {"wheel_delta", "keys", "model", "camera", "latest"} |-> Free]
    /\ latest = LatestInit
    /\ points_chan = <<>>
    /\ update_chan = 0
    /\ sim_pc = "lock_wheel"
    /\ reverse_sort = TRUE
    /\ changed = TRUE
    /\ sim_snap = NoSnap
    /\ sort_pc = "recv"
    /\ points_m = <<>>
    /\ data_points = <<>>
    /\ regen_points = FALSE
    /\ sort_latest = None
    /\ sort_i = 0
    /\ ev_pc = "idle"
    /\ point_density = SceneDensity
    /\ hist = Called("new", 0, None, FALSE)
CallZoom(amount) ==
    /\ OffAxis(camera)
    /\ camera' = Zoom(camera, amount)
    /\ \E p \in CameraStarts : Abs(camera'.position.r - p.r) <= MaxZoom * ZoomStep
    /\ hist' = Called("zoom", amount, None, hist.dropped \/ Cached(camera))
    /\ UNCHANGED pipeline_vars
CallRotateUp(angle) ==
    /\ OffAxis(camera)
    /\ camera' = RotateUp(camera, angle)
    /\ hist' = Called("rotate_up", angle, None,
                      hist.dropped \/ (Cached(camera) /\ ~Cached(camera')))
    /\ UNCHANGED pipeline_vars
CallSetAspect(aspect) ==
    /\ OffAxis(camera)
    /\ camera' = SetAspect(camera, aspect)
    /\ hist' = Called("set_aspect", aspect, None, hist.dropped \/ Cached(camera))
    /\ UNCHANGED pipeline_vars
CallView ==
    /\ OffAxis(camera)
    /\ camera' = AfterView(camera)
    /\ hist' = Called("view", 0, Some(ViewOf(camera)), hist.dropped)
    /\ UNCHANGED pipeline_vars
CallPerspective ==
    /\ OffAxis(camera)
    /\ camera' = AfterPerspective(camera)
    /\ hist' = Called("perspective", 0, Some(PerspectiveOf(camera)), hist.dropped)
    /\ UNCHANGED pipeline_vars
NextCamera ==
    \/ \E amount \in ZoomAmounts : CallZoom(amount)
    \/ \E angle \in RotateAngles : CallRotateUp(angle)
    \/ \E aspect \in CameraAspects : CallSetAspect(aspect)
    \/ CallView
    \/ CallPerspective
SpecCamera == InitCamera /\ [][NextCamera]_vars

\* gen_point_list on its own: one call on a mesh, a density and the outcomes
\* of its random draws.  The meshes are the two of the scene and a quad of two
\* triangles, with and without a trailing incomplete index group; their
\* coordinates are multiples of RandDen, so that sampled positions are exact.
QuadMesh(indices) ==
    [ indices   |-> indices,
      positions |-> << <<40, 0, 0>>, <<80, 0, 0>>, <<40, 0, 20>>, <<80, 0, 20>> >>,
      normals   |-> << <<1, 0, 0>>, <<0, 1, 0>>, <<0, 0, 1>>, <<1, 1, 0>> >>,
      texcoords |-> << <<0, 0>>, <<4, 0>>, <<0, 4>>, <<4, 4>> >> ]
SamplerMeshes ==
    { Models[i] : i \in 1..NumModels }
        \cup { QuadMesh(<<0, 1, 2, 2, 1, 3>>), QuadMesh(<<0, 1, 2, 2, 1, 3, 0, 1>>) }
SamplerDensities == { 0, 50, 150 } \cup SliderDensities
SamplerDraws == [1..MaxDraws -> 0..(RandDen - 1)]
InitSampler ==
    /\ wheel_delta = None
    /\ keys = {}
    /\ model = Identity4
    /\ camera = CameraNew(CameraStart,
                          [len |-> CameraStart.r, ang |-> NormDeg(CameraStart.ang + 180)],
                          WindowAspect)
    /\ stroke_density = SceneDensity
    /\ lock = [n \in {"wheel_delta", "keys", "model", "camera", "latest"} |-> Free]
    /\ latest = LatestInit
    /\ points_chan = <<>>
    /\ update_chan = 0
    /\ sim_pc = "lock_wheel"
    /\ reverse_sort = TRUE
    /\ changed = TRUE
    /\ sim_snap = NoSnap
    /\ sort_pc = "recv"
    /\ points_m = <<>>
    /\ data_points = <<>>
    /\ regen_points = FALSE
    /\ sort_latest = None
    /\ sort_i = 0
    /\ ev_pc = "idle"
    /\ point_density = SceneDensity
    /\ \E mesh \in SamplerMeshes, density \in SamplerDensities, draws \in SamplerDraws :
          hist = [ mesh |-> mesh, density |-> density, draws |-> draws, out |-> None ]
CallGenPointList ==
    /\ hist.out = None
    /\ hist' = [hist EXCEPT !.out = Some(GenPointList(hist.mesh, hist.density, hist.draws))]
    /\ UNCHANGED << camera, pipeline_vars >>
NextSampler == CallGenPointList
SpecSampler == InitSampler /\ [][NextSampler]_vars

\* The locks step by step: each handler of the event loop and each part of
\* draw takes its mutex in one step and does its work and drops the guard in
\* the next, so that the main thread is seen holding it.  The inputs are a
\* resize, the G key (held keys the simulation loop does not read) and the
\* end of a wheel gesture.
EvLock(from, name, to) ==
    /\ ev_pc = from
    /\ LockFree(name)
    /\ lock' = Acquire(name, "main")
    /\ ev_pc' = to
    /\ UNCHANGED << shared_vars, latest, points_chan, update_chan, sim_vars,
                    sort_vars, point_density, data_points, hist >>
\* the guard of a mutex the main thread took goes out of scope
\* variant: the guard is bound to a name that lives on to the end of draw
GuardKept(l, name) == l
GuardDropped(l, name) == [l EXCEPT ![name] = Free]

\* let mut camera = state.camera.lock().unwrap(); camera.set_aspect(aspect);
ResizedLock == EvLock("idle", "camera", "resized")
ResizedHeld(aspect) ==
    /\ ev_pc = "resized"
    /\ camera' = SetAspect(camera, aspect)
    /\ lock' = GuardDropped(lock, "camera")
    /\ ev_pc' = "idle"
    /\ UNCHANGED << wheel_delta, keys, model, stroke_density, latest, points_chan,
                    update_chan, sim_vars, sort_vars, point_density, data_points, hist >>
\* state.keys.lock().unwrap().insert(key) / .remove(&key)
KeysLock == EvLock("idle", "keys", "keys")
KeysHeld(key, pressed) ==
    /\ ev_pc = "keys"
    /\ keys' = IF pressed THEN keys \cup {key} ELSE keys \ {key}
    /\ lock' = GuardDropped(lock, "keys")
    /\ ev_pc' = "idle"
    /\ UNCHANGED << wheel_delta, model, camera, stroke_density, latest, points_chan,
                    update_chan, sim_vars, sort_vars, point_density, data_points, hist >>
\* *state.wheel_delta.lock().unwrap() = None / Some(delta)
WheelLock == EvLock("idle", "wheel_delta", "wheel")
WheelHeld(delta) ==
    /\ ev_pc = "wheel"
    /\ wheel_delta' = delta
    /\ lock' = GuardDropped(lock, "wheel_delta")
    /\ ev_pc' = "idle"
    /\ UNCHANGED << keys, model, camera, stroke_density, latest, points_chan,
                    update_chan, sim_vars, sort_vars, point_density, data_points, hist >>
\* draw: { .. *state.model.lock().unwrap() }
DrawModelLock == EvLock("draw_model", "model", "draw_model_held")
DrawModelHeld ==
    /\ ev_pc = "draw_model_held"
    /\ lock' = GuardDropped(lock, "model")
    /\ ev_pc' = "draw_camera"
    /\ UNCHANGED << shared_vars, latest, points_chan, update_chan, sim_vars,
                    sort_vars, point_density, data_points, hist >>
\* draw_points: { let camera = state.camera.lock().unwrap(); view, perspective }
DrawCameraLock == EvLock("draw_camera", "camera", "draw_camera_held")
DrawCameraHeld ==
    /\ ev_pc = "draw_camera_held"
    /\ camera' = AfterPerspective(AfterView(camera))
    /\ lock' = GuardDropped(lock, "camera")
    /\ ev_pc' = "idle"
    /\ UNCHANGED << wheel_delta, keys, model, stroke_density, latest, points_chan,
                    update_chan, sim_vars, sort_vars, point_density, data_points, hist >>
EventLocks ==
    \/ ResizedLock
    \/ \E a \in Aspects : ResizedHeld(a)
    \/ KeysLock
    \/ \E pressed \in BOOLEAN : KeysHeld("G", pressed)
    \/ WheelLock
    \/ WheelHeld(None)
    \/ Frame(point_density)
    \/ DrawModelLock
    \/ DrawModelHeld
    \/ DrawCameraLock
    \/ DrawCameraHeld
NextLocks == SimStep \/ SortCell \/ EventLocks
SpecLocks == Init /\ [][NextLocks]_vars

\* The same with the scheduling of the three threads: each loop sleeps outside
\* its critical sections on every round and the critical sections are short,
\* so a thread that finds its mutex free again and again does get it, and a
\* thread holding one goes on to drop it; the event loop wakes for a frame
\* every 16 ms.
SpecLocksFair ==
    /\ SpecLocks
    /\ SF_vars(SimStep)
    /\ SF_vars(SortCell)
    /\ WF_vars(\E a \in Aspects : ResizedHeld(a))
    /\ WF_vars(\E pressed \in BOOLEAN : KeysHeld("G", pressed))
    /\ WF_vars(WheelHeld(None))
    /\ SF_vars(Frame(point_density))
    /\ SF_vars(DrawModelLock)
    /\ WF_vars(DrawModelHeld)
    /\ SF_vars(DrawCameraLock)
    /\ WF_vars(DrawCameraHeld)

\* Input that comes to rest: the Up key may go down and up, frames are
\* rendered, nothing else happens.  Both spawned threads run for ever (each
\* sleeps outside its critical section and is scheduled again), the event loop
\* keeps rendering, and a handler or a draw waiting for a mutex gets it.
EventQuiet ==
    \/ \E pressed \in BOOLEAN : KeyboardInput("Up", pressed)
    \/ Frame(point_density)
    \/ DrawModel
    \/ DrawCamera
NextQuiet == SimStep \/ SortCell \/ EventQuiet
SpecQuietFair ==
    /\ Init /\ [][NextQuiet]_vars
    /\ WF_vars(SimStep)
    /\ WF_vars(SortCell)
    /\ WF_vars(Frame(point_density))
    /\ SF_vars(DrawModel)
    /\ SF_vars(DrawCamera)

\* The same with the scheduling the consumer relies on: the event loop keeps
\* running frames, the simulation thread keeps ticking, and a frame waiting
\* for the model or camera mutex gets it, since the simulation thread sleeps
\* outside its locked block on every tick. Nothing is assumed of the sort
\* thread.
FrameAny == \E d \in SliderDensities : Frame(d)
SpecQueueFair ==
    /\ SpecQueue
    /\ WF_vars(SimStep)
    /\ WF_vars(FrameAny)
    /\ SF_vars(DrawModel)
    /\ SF_vars(DrawCamera)

(* ------------------------- the hand-off cell -------------------------- *)
\* C1: when the simulation loop tests `changed`, the flag is true exactly when
\* the loop has mutated the camera, the model matrix or the sort direction
\* since its last successful write to the cell.
C1_ChangedIffMutated == sim_pc = "test" => (changed <=> hist.dirty)

\* C2: the simulation loop's publish attempt is always able to finish at once;
\* when the sort loop holds the cell's lock at that moment the attempt leaves
\* the cell as it was, and in either case the tick goes on to its end.
C2_PublishNeverWaits ==
    /\ [](sim_pc = "publish" => ENABLED SimPublish)
    /\ [][sim_pc = "publish" /\ sim_pc' # sim_pc
            => /\ sim_pc' = "unlock"
               /\ lock["latest"] = "sort" => latest' = latest]_vars
\* a tick that went through the publish attempt while the sort loop held the
\* cell, and left in the cell something other than its own snapshot
C2_Witness ==
    /\ sim_pc = "unlock"
    /\ sim_snap.perspective # None
    /\ lock["latest"] = "sort"
    /\ latest # Some(SimSnapshot)

\* C3: what the sort loop copies out of the cell is the last snapshot that was
\* successfully written, however many were written since its previous read.
C3_ReadsLastWritten ==
    [][sort_pc = "copy" /\ sort_pc' # sort_pc => sort_latest' = hist.written]_vars
\* the sort loop holds the cell after two writes it has not read
C3_Witness ==
    /\ sort_pc = "copy"
    /\ hist.pubs >= 2
    /\ sort_latest # None
    /\ sort_latest # latest

\* C7: every buffer sorted in one sort tick is sorted against the snapshot
\* that tick copied out of the cell.
C7_OneSnapshotPerTick ==
    \A i \in DOMAIN hist.used : hist.used[i] = Unwrap(sort_latest)
\* a tick that has sorted all its buffers while a newer snapshot was written
C7_Witness ==
    /\ sort_pc = "sort"
    /\ Len(hist.used) = NumModels
    /\ NumModels >= 2
    /\ hist.pubs >= 1
    /\ latest # sort_latest

\* C9: as long as no snapshot has been written to the cell, the sort loop sorts
\* nothing and sends nothing.
C9_NothingBeforeFirstSnapshot ==
    hist.written = None
        => /\ hist.sent = None
           /\ points_chan = << >>
           /\ sort_pc # "sort"
           /\ hist.used = << >>
\* the sort loop has read the empty cell and gone back to sleep
C9_Witness ==
    /\ hist.written = None
    /\ sort_i = 1
    /\ sort_pc = "recv"

\* C10: while the simulation loop holds the camera lock only its own steps
\* change the camera, and the view and projection of the snapshot it is about
\* to publish are those of the camera as it is at that moment.
C10_CameraUnderLock ==
    /\ [](sim_pc = "publish"
            => /\ sim_snap.view = Some(LookAtRh(camera.position, camera.direction))
               /\ sim_snap.perspective = Some(Perspective(camera.aspect_ratio)))
    /\ [][lock["camera"] = "sim" /\ camera' # camera => sim_pc' # sim_pc]_vars
\* a publish attempt after the window was resized and the camera zoomed
C10_Witness ==
    /\ sim_pc = "publish"
    /\ camera.aspect_ratio # WindowAspect
    /\ camera.position.r # CameraStart.r

(* ------------------------- the points channel ------------------------- *)
\* C4: a render frame's drain leaves the channel empty; with messages pending
\* the consumer's point buffers become those of the message sent last, and
\* with none pending they stay as they were.
C4_DrainTakesLast ==
    [][ev_pc = "idle" /\ ev_pc' = "draw_model"
         => /\ points_chan' = << >>
            /\ data_points' = IF points_chan # << >>
                              THEN points_chan[Len(points_chan)]
                              ELSE data_points]_vars

\* C5: again and again the consumer has caught up: the channel is empty and
\* the message it took last is the one the sort loop sent last.
C5_EventuallyLatest == []<>(points_chan = << >> /\ hist.taken = hist.sent)
\* a frame has just taken the last message sent, one made after a re-sampling
C5_Witness ==
    /\ ev_pc = "draw_model"
    /\ points_chan = << >>
    /\ hist.taken # None
    /\ hist.taken = hist.sent
    /\ data_points[1] = Unwrap(hist.taken)[1]
    /\ Len(Unwrap(hist.taken)) < NumModels

\* C6: the number of messages pending in the points channel stays below a
\* constant.
C6_QueueBounded == Len(points_chan) < MaxQueue

C11_NoStaleCache ==
    /\ hist.op = "view"
         => hist.ret = Some(LookAtRh(camera.position, camera.direction))
    /\ hist.op = "perspective"
         => /\ hist.ret = Some(Perspective(camera.aspect_ratio))
            /\ camera.fov = FovDeg /\ camera.near = Near /\ camera.far = Far
\* view() called with no cached matrix, after a mutator dropped one
C11_Witness ==
    /\ hist.op = "view"
    /\ hist.dropped
    /\ hist.before.view = None
    /\ camera.aspect_ratio # WindowAspect
    /\ LookAtRh(camera.position, camera.direction)
         \notin { LookAtRh(p, [len |-> p.r, ang |-> NormDeg(p.ang + 180)]) : p \in CameraStarts }

\* C12 as stated: the two cached matrices are both absent, or both present
\* and those of the current parameters.
C12_BothOrNeither ==
    \/ camera.view = None /\ camera.perspective = None
    \/ /\ camera.view = Some(LookAtRh(camera.position, camera.direction))
       /\ camera.perspective = Some(Perspective(camera.aspect_ratio))
\* C12 amended: each cached matrix is absent or that of the current
\* parameters, and right after a mutator that was applied both are absent.
C12_EachAbsentOrCurrent ==
    /\ camera.view # None
         => camera.view = Some(LookAtRh(camera.position, camera.direction))
    /\ camera.perspective # None
         => camera.perspective = Some(Perspective(camera.aspect_ratio))
    /\ (hist.op \in {"zoom", "set_aspect", "rotate_up"} /\ camera # hist.before)
         => camera.view = None /\ camera.perspective = None
\* after a mutator dropped both, view() alone has been called
C12_Witness ==
    /\ hist.dropped
    /\ camera.view # None
    /\ camera.perspective = None

\* C13: a rotate_up(a) at angle t to world-up changes nothing when t+a < 5
\* with a < 0 or t+a > 175 with a > 0, and is applied when t+a is 5 or 175.
C13_GuardBand ==
    hist.op = "rotate_up"
      => LET t == Theta(hist.before)
             a == hist.arg
         IN  /\ ((t + a < 5 /\ a < 0) \/ (t + a > 175 /\ a > 0))
                  => camera = hist.before
             /\ (t + a \in {5, 175})
                  => /\ camera.position # hist.before.position
                     /\ camera.view = None /\ camera.perspective = None
\* a rejected rotation of a camera with both matrices cached
C13_Witness ==
    /\ hist.op = "rotate_up"
    /\ Theta(hist.before) + hist.arg > 175
    /\ hist.arg > 0
    /\ camera.view # None
    /\ camera.perspective # None

\* C14: a rotate_up(a) that is not rejected keeps the distance to the origin,
\* changes the angle to world-up by a, and leaves the direction the unit
\* vector from the position to the origin.
C14_OrbitByAngle ==
    (hist.op = "rotate_up" /\ ~RotateRejected(hist.before, hist.arg))
      => /\ camera.position.r = hist.before.position.r
         /\ Theta(camera) = Theta(hist.before) + hist.arg
         /\ camera.direction = [len |-> UnitLen, ang |-> NormDeg(camera.position.ang + 180)]

\* C15: zoom(amount) moves the position by amount along the unit vector of
\* the direction and changes neither the direction nor fov, aspect ratio,
\* near and far.
C15_ZoomAlongDirection ==
    hist.op = "zoom"
      => /\ PosVec(camera.position)
              = VAdd(PosVec(hist.before.position),
                     VScale(UnitVec(hist.before.direction.ang), hist.arg))
         /\ camera.direction = hist.before.direction
         /\ camera.fov = hist.before.fov
         /\ camera.aspect_ratio = hist.before.aspect_ratio
         /\ camera.near = hist.before.near
         /\ camera.far = hist.before.far
\* a zoom out, and a zoom in that carried the position through the origin
C15_Witness ==
    /\ hist.op = "zoom"
    /\ hist.arg = ZoomStep
    /\ camera.position.ang = camera.direction.ang
    /\ hist.before.position.ang # camera.position.ang

(* ------------------------- buffers and sampling ----------------------- *)
\* C16: the sort loop's buffer set, and every buffer set pending in the
\* points channel, holds exactly one point sequence per mesh-model.
C16_OneBufferPerModel ==
    /\ Len(points_m) = NumModels
    /\ \A i \in DOMAIN points_chan : Len(points_chan[i]) = NumModels

\* C17: gen_point_list with density 0 returns the empty sequence, whatever
\* the mesh and the draws.
C17_ZeroDensityEmpty ==
    (hist.out # None /\ hist.density = 0) => Unwrap(hist.out) = << >>
\* a call with density 0 on a mesh of two triangles whose first draw is 0
C17_Witness ==
    /\ hist.out # None
    /\ hist.density = 0
    /\ Len(hist.mesh.indices) >= 6
    /\ hist.draws[1] = 0

\* C18: each complete triangle yields floor(area * density) points, and one
\* more exactly when the one draw made for it is below the fractional
\* remainder; that draw is the first one after the previous triangle's points.
C18_CountByOneDraw ==
    hist.out # None
      => LET mesh == hist.mesh
             unit == 2 * UnitLen * UnitLen
             Area2(k) ==
                 LET a == mesh.positions[mesh.indices[3 * k - 2] + 1]
                     b == mesh.positions[mesh.indices[3 * k - 1] + 1]
                     c == mesh.positions[mesh.indices[3 * k] + 1]
                 IN  Magnitude(Cross(VSub(b, a), VSub(c, a)))
             Count(k, at) ==
                 LET expected == Area2(k) * hist.density
                     whole == expected \div unit
                     q == Draw(hist.draws, at)
                 IN  IF q * unit < (expected - whole * unit) * RandDen
                     THEN whole + 1 ELSE whole
             first == Count(1, 1)
         IN  Len(Unwrap(hist.out)) =
                 IF Len(mesh.indices) \div 3 = 1 THEN first
                 ELSE first + Count(2, 2 + 3 * first)
\* two triangles with a remainder of one half: the first got the extra point,
\* the second did not
C18_Witness ==
    /\ hist.out # None
    /\ hist.density = 150
    /\ Len(hist.mesh.indices) >= 6
    /\ Len(Unwrap(hist.out)) = 3
    /\ hist.draws[1] < 2

\* C19: the folded coefficients are not negative and sum to at most 1, and
\* every sampled position lies inside a triangle of its mesh: the areas it
\* spans with the three edges add up to the area of the triangle.
C19_InsideTriangle ==
    /\ \A q1, q2 \in 0..(RandDen - 1) :
          /\ Fold(q1, q2)[1] >= 0
          /\ Fold(q1, q2)[2] >= 0
          /\ Fold(q1, q2)[1] + Fold(q1, q2)[2] <= RandDen
    /\ hist.out # None
         => \A i \in DOMAIN Unwrap(hist.out) :
              \E k \in 1..(Len(hist.mesh.indices) \div 3) :
                 LET mesh == hist.mesh
                     p == Unwrap(hist.out)[i].position
                     a == mesh.positions[mesh.indices[3 * k - 2] + 1]
                     b == mesh.positions[mesh.indices[3 * k - 1] + 1]
                     c == mesh.positions[mesh.indices[3 * k] + 1]
                 IN  Magnitude(Cross(VSub(b, p), VSub(c, p)))
                       + Magnitude(Cross(VSub(c, p), VSub(a, p)))
                       + Magnitude(Cross(VSub(a, p), VSub(b, p)))
                     = Magnitude(Cross(VSub(b, a), VSub(c, a)))
\* a point was sampled from two draws that had to be folded
C19_Witness ==
    /\ hist.out # None
    /\ Len(Unwrap(hist.out)) >= 1
    /\ hist.draws[2] + hist.draws[3] >= RandDen

\* C20: the normal and uv of every sampled point are the three vertices'
\* normals and uvs weighted by the barycentric weights of those vertices at
\* the point's position (in units of 1 / RandDen).
C20_AttributesAtOwnWeights ==
    hist.out # None
      => \A i \in DOMAIN Unwrap(hist.out) :
           \E k \in 1..(Len(hist.mesh.indices) \div 3) :
              LET mesh == hist.mesh
                  pt == Unwrap(hist.out)[i]
                  p == pt.position
                  ia == mesh.indices[3 * k - 2] + 1
                  ib == mesh.indices[3 * k - 1] + 1
                  ic == mesh.indices[3 * k] + 1
                  a == mesh.positions[ia]
                  b == mesh.positions[ib]
                  c == mesh.positions[ic]
                  area2 == Magnitude(Cross(VSub(b, a), VSub(c, a)))
                  wa == (Magnitude(Cross(VSub(b, p), VSub(c, p))) * RandDen) \div area2
                  wb == (Magnitude(Cross(VSub(c, p), VSub(a, p))) * RandDen) \div area2
                  wc == (Magnitude(Cross(VSub(a, p), VSub(b, p))) * RandDen) \div area2
              IN  /\ wa + wb + wc = RandDen
                  /\ pt.normal = VAdd(VAdd(VScale(mesh.normals[ia], wa),
                                           VScale(mesh.normals[ib], wb)),
                                      VScale(mesh.normals[ic], wc))
                  /\ pt.uv = VAdd(VAdd(VScale(mesh.texcoords[ia], wa),
                                       VScale(mesh.texcoords[ib], wb)),
                                  VScale(mesh.texcoords[ic], wc))
\* C21: an index stream that ends in a group of fewer than three indices is
\* sampled as the same mesh without that group: the group adds no point and
\* the complete triangles before it get the points they would get without it.
C21_TrailingGroupSkipped ==
    hist.out # None
      => LET n == Len(hist.mesh.indices)
             whole == [hist.mesh EXCEPT !.indices = SubSeq(hist.mesh.indices, 1, n - (n % 3))]
         IN  /\ Unwrap(hist.out) = SampleTriangles(whole, Chunks3(whole.indices),
                                                   hist.density, hist.draws, 1)
             /\ \A i \in DOMAIN Unwrap(hist.out) :
                   \E k \in 1..(n \div 3) :
                      LET p == Unwrap(hist.out)[i].position
                          a == hist.mesh.positions[hist.mesh.indices[3 * k - 2] + 1]
                          b == hist.mesh.positions[hist.mesh.indices[3 * k - 1] + 1]
                          c == hist.mesh.positions[hist.mesh.indices[3 * k] + 1]
                      IN  Magnitude(Cross(VSub(b, p), VSub(c, p)))
                            + Magnitude(Cross(VSub(c, p), VSub(a, p)))
                            + Magnitude(Cross(VSub(a, p), VSub(b, p)))
                          = Magnitude(Cross(VSub(b, a), VSub(c, a)))
\* a mesh of two triangles and two stray indices that got points from both
C21_Witness ==
    /\ hist.out # None
    /\ Len(hist.mesh.indices) % 3 = 2
    /\ \E i, j \in DOMAIN Unwrap(hist.out) :
          /\ Unwrap(hist.out)[i].position[1] + 2 * Unwrap(hist.out)[i].position[3] < 80
          /\ Unwrap(hist.out)[j].position[1] + 2 * Unwrap(hist.out)[j].position[3] > 80
(* ------------------------ the consumer going away --------------------- *)
\* C22: once the receiver of the points channel is gone, the send that ends
\* the sort loop's next pass fails and ends the sort loop: nothing is queued,
\* and from then on the sort loop sorts and sends nothing; the simulation loop
\* can always take its next step, and every publish it attempts is written.
C22_SendFailureEndsSortOnly ==
    /\ [][(ev_pc = "gone" /\ sort_pc = "sort" /\ sort_i > Len(points_m)
              /\ sort_pc' # sort_pc)
            => sort_pc' = "panicked" /\ points_chan' = points_chan]_vars
    /\ [][sort_pc = "panicked"
            => /\ UNCHANGED << sort_vars, points_chan >>
               /\ hist'.sent = hist.sent
               /\ hist'.used = hist.used]_vars
    /\ [][(sort_pc = "panicked" /\ sim_pc = "publish" /\ sim_pc' # sim_pc)
            => latest' = Some(SimSnapshot)]_vars
    /\ [](sort_pc = "panicked" => ENABLED SimStep)
\* the sort loop has ended on a failed send, and a tick of the simulation loop
\* has since put into the cell a snapshot the sort loop never read
C22_Witness ==
    /\ ev_pc = "gone"
    /\ sort_pc = "panicked"
    /\ sim_pc = "unlock"
    /\ sim_snap.perspective # None
    /\ latest = Some(SimSnapshot)
    /\ latest # sort_latest
    /\ hist.sent # None
(* ------------------------------ liveness ------------------------------ *)
\* the snapshot of the shared state as it is now
CurrentSnapshot ==
    Snapshot(model, LookAtRh(camera.position, camera.direction),
             Perspective(camera.aspect_ratio), reverse_sort)
\* C23: if from some point on no key is held and no wheel delta is pending,
\* then from some point on the cell holds the snapshot of the current model,
\* view, projection and sort direction, and the sort loop keeps starting
\* passes against that snapshot.
C23_EventuallyCurrent ==
    <>[](keys = {} /\ wheel_delta = None)
      => /\ <>[](latest = Some(CurrentSnapshot))
         /\ []<>(sort_pc = "sort" /\ sort_latest = Some(CurrentSnapshot))
(* -------------------------- the guard band ---------------------------- *)
\* C24: after any sequence of rotate_up and zoom calls on a camera that
\* started out looking at the origin from inside the band, the angle between
\* the position and world-up is between 5 and 175 degrees.
C24_StaysInBand == Theta(camera) >= 5 /\ Theta(camera) <= 175
(* ------------------------------ the locks ----------------------------- *)
\* the mutex a thread is about to lock(), None when it is not at a lock()
Wants(t) ==
    IF t = "sim"
    THEN IF sim_pc = "lock_wheel" THEN Some("wheel_delta")
         ELSE IF sim_pc = "lock_keys" THEN Some("keys")
         ELSE IF sim_pc = "lock_model" THEN Some("model")
         ELSE IF sim_pc = "lock_camera" THEN Some("camera")
         ELSE None
    ELSE IF t = "sort"
    THEN IF sort_pc = "lock" THEN Some("latest") ELSE None
    ELSE IF ev_pc = "draw_model" THEN Some("model")
         ELSE IF ev_pc = "draw_camera" THEN Some("camera")
         ELSE None
Held(t) == { n \in DOMAIN lock : lock[n] = t }
Blocked(t) == Wants(t) # None /\ lock[Unwrap(Wants(t))] # Free
\* C25: the simulation loop holds its mutexes nested in the order wheel_delta,
\* keys, model, camera and never the cell's; the main thread and the sort
\* loop hold at most one mutex; a thread that waits for a mutex waits for a
\* thread that is not itself waiting; and every lock() is got past: the
\* simulation loop comes to hold all four again and again, the sort loop the
\* cell, and a frame that has begun to draw finishes drawing.
C25_NoDeadlock ==
    /\ [](/\ Held("sim") \in { {}, {"wheel_delta"}, {"wheel_delta", "keys"},
                                {"wheel_delta", "keys", "model"},
                                {"wheel_delta", "keys", "model", "camera"} }
          /\ Cardinality(Held("main")) <= 1
          /\ Held("sort") \subseteq {"latest"}
          /\ \A t \in Threads :
                Blocked(t) => ~Blocked(lock[Unwrap(Wants(t))]))
    /\ []<>(sim_pc = "input")
    /\ []<>(sort_pc = "copy")
    /\ (ev_pc \in {"draw_model", "draw_camera"}) ~> (ev_pc = "idle")
\* the simulation loop, holding three mutexes, waits for the camera that a
\* resize holds, while the sort loop holds the cell
C25_Witness ==
    /\ sim_pc = "lock_camera"
    /\ Held("sim") = {"wheel_delta", "keys", "model"}
    /\ lock["camera"] = "main"
    /\ lock["latest"] = "sort"
(* -------------------------- the sort loop's tick ---------------------- *)
\* C26: a cell that holds a snapshot never becomes empty, and the sort loop's
\* read leaves it as it was; a tick that reads a snapshot goes on to sort,
\* sorts every buffer against it and ends in the one send of the tick, also
\* when nothing was written since the read of the tick before, in which case
\* it sorts against the same snapshot again.
C26_ReadKeepsCell ==
    /\ [][latest # None => latest' # None]_vars
    /\ [][(sort_pc = "copy" /\ sort_pc' # sort_pc)
            => /\ latest' = latest
               /\ latest # None => (sort_pc' = "sort" /\ sort_latest' = latest)
               /\ (hist.pubs = 0 /\ sort_latest # None)
                     => (sort_pc' = "sort" /\ sort_latest' = sort_latest)]_vars
    /\ [][(sort_pc = "sort" /\ sort_pc' # sort_pc)
            => /\ Len(hist.used) = Len(points_m)
               /\ \A i \in DOMAIN hist.used : hist.used[i] = Unwrap(sort_latest)
               /\ points_chan' = Append(points_chan, points_m)]_vars
    /\ [][Len(points_chan') > Len(points_chan)
            => (sort_pc = "sort" /\ sort_pc' = "recv")]_vars
\* a second tick has sorted every buffer against the snapshot the first tick
\* used, whose message is still pending, and is about to send
C26_Witness ==
    /\ sort_pc = "sort"
    /\ sort_i > Len(points_m)
    /\ Len(hist.used) = NumModels
    /\ hist.pubs = 0
    /\ sort_latest = latest
    /\ hist.written = latest
    /\ Len(points_chan) = 1
    /\ hist.sent # None
(* --------------------------- density requests ------------------------- *)
\* the points of a buffer set, buffer after buffer
RECURSIVE Flatten(_)
Flatten(bufs) == IF Len(bufs) = 0 THEN <<>> ELSE Head(bufs) \o Flatten(Tail(bufs))
Occurrences(s, x) == Cardinality({ i \in DOMAIN s : s[i] = x })
IsPermutation(s, t) ==
    /\ Len(s) = Len(t)
    /\ \A i \in DOMAIN s : Occurrences(s, s[i]) = Occurrences(t, s[i])
\* the buffer set holds the points of every model sampled at density d
SampledAt(bufs, d) ==
    \E draws \in DrawStreams : IsPermutation(Flatten(bufs), AllPoints(1, d, draws))
\* C27: the drain at the start of a sort tick takes every pending density
\* request and leads to a re-sampling exactly when there was one; that
\* re-sampling is the only step that changes the points, is done once, and
\* samples at the density stored at that moment; and if the density comes to
\* rest at d, a snapshot is published and the sort loop keeps ticking, then
\* from some point on the message the consumer took last is one sampled at d.
C27_RequestsCoalesced ==
    /\ [][(sort_pc = "recv" /\ sort_pc' # sort_pc)
            => /\ update_chan' = 0
               /\ (update_chan > 0) <=> (sort_pc' = "regen")]_vars
    /\ [][(sort_pc = "regen" /\ sort_pc' # sort_pc)
            => (sort_pc' = "lock" /\ SampledAt(points_m', stroke_density))]_vars
    /\ [][~IsPermutation(Flatten(points_m'), Flatten(points_m)) => sort_pc = "regen"]_vars
    /\ \A d \in SliderDensities :
          (/\ <>[](stroke_density = d)
           /\ <>(latest # None)
           /\ []<>(sort_pc = "recv") /\ []<>(sort_pc = "copy"))
            => <>[](hist.taken # None /\ SampledAt(Unwrap(hist.taken), d))
\* two requests, the density moved away and back, were pending together and
\* have been taken by one drain, before any re-sampling was done
C27_Witness ==
    /\ sort_pc = "regen"
    /\ update_chan = 0
    /\ stroke_density = SceneDensity
    /\ Len(points_m) = NumModels
    /\ latest # None
(* ------------------------ a sort pass as a whole ---------------------- *)
\* C28: during and after a sort pass every buffer is a permutation of what it
\* was before the pass, the same points with the same fields, as many of
\* each, whichever way the snapshot's flag says to sort; and the message sent
\* at the end of the pass is those buffers.
C28_PassPermutes ==
    /\ Len(points_m) = Len(data_points)
    /\ \A b \in DOMAIN points_m : IsPermutation(points_m[b], data_points[b])
    /\ \A k \in DOMAIN points_chan : points_chan[k] = points_m
\* a finished pass, flag clear, that reordered a full buffer in which one
\* point occurs twice, and has sent it
C28_Witness ==
    /\ sort_pc = "recv"
    /\ Len(points_chan) = 1
    /\ ~Unwrap(sort_latest).reverse_sort
    /\ Len(points_m[1]) = MaxBuf
    /\ points_m[1] # data_points[1]
    /\ \E i, j \in DOMAIN points_m[1] : i # j /\ points_m[1][i] = points_m[1][j]
(* ----------------------------- the R key ------------------------------ *)
\* C29: the input step of a tick flips the sort direction when R is in the
\* held-key set and leaves it alone when it is not, and nothing else changes
\* it; the held keys do not change while the tick holds their mutex, and a
\* tick that found R held sets `changed`, goes through the publish attempt
\* and only then ends.
C29_ToggledPerTick ==
    /\ [][(sim_pc = "input" /\ sim_pc' # sim_pc)
            => /\ reverse_sort' = (IF "R" \in keys THEN ~reverse_sort ELSE reverse_sort)
               /\ "R" \in keys => changed']_vars
    /\ [][reverse_sort' # reverse_sort => sim_pc = "input"]_vars
    /\ [][lock["keys"] = "sim" => keys' = keys]_vars
    /\ [][(sim_pc = "test" /\ "R" \in keys /\ sim_pc' # sim_pc) => sim_pc' = "view"]_vars
    /\ [][("R" \in keys /\ sim_pc' = "unlock" /\ sim_pc # "unlock")
            => sim_pc = "publish"]_vars
\* R is held in a tick about to publish, the third publish since the sort
\* loop last read the cell, with the flag flipped from the one written last
C29_Witness ==
    /\ sim_pc = "publish"
    /\ "R" \in keys
    /\ hist.pubs = 2
    /\ hist.written # None
    /\ reverse_sort # Unwrap(hist.written).reverse_sort
====
